---- MODULE Spec2Model ----
(***************************************************************************)
(* Model of dlt/destinations/impl/sqlalchemy/merge_job.py:                 *)
(* SqlalchemyMergeFollowupJob.generate_sql builds the list of SQL          *)
(* statements that merges the staging dataset of one table chain into the  *)
(* target dataset; the statements are then executed one after another.     *)
(*                                                                         *)
(* A table is a bag of rows (a function row -> number of copies): the      *)
(* statements are plain INSERT ... SELECT and DELETE, and a SELECT whose   *)
(* FROM list names two tables yields their cross product.                  *)
(*                                                                         *)
(* Which table a column object belongs to decides the FROM list that       *)
(* SQLAlchemy renders: a column of table X used inside a SELECT adds X to  *)
(* that SELECT's FROM list, unless X is the table of the enclosing         *)
(* DELETE/SELECT, in which case the reference is correlated to the         *)
(* enclosing row.  The model follows the column objects the code uses.     *)
(***************************************************************************)
EXTENDS Integers, Sequences, FiniteSets, TLC

\* ------------------------------------------------------------------ bounds
MaxRoot == 2          \* root rows per root table
MaxDeepStaging == 1   \* staging root rows of a chain with two nested tables
MaxNested == 2        \* rows per nested table
MaxKeyVal == 2        \* distinct values of a key column
MaxDoc == 2           \* distinct values of the doc_id column
MaxRuns == 2          \* executions of the plan on the same staging batch

NULL == "null"

\* -------------------------------------------------------------------- bags
EmptyTable == [r \in {} |-> 0]

BagOf(S) == [r \in S |-> 1]

Copies(B, r) == IF r \in DOMAIN B THEN B[r] ELSE 0

Plus(B1, B2) == [r \in (DOMAIN B1) \cup (DOMAIN B2) |-> Copies(B1, r) + Copies(B2, r)]

\* the rows of B that are in the set S
Filter(B, S) == [r \in S \cap DOMAIN B |-> B[r]]

Scale(B, k) == IF k = 0 THEN EmptyTable ELSE [r \in DOMAIN B |-> B[r] * k]

RECURSIVE SumOver(_, _)
SumOver(B, S) ==
    IF S = {} THEN 0
    ELSE LET r == CHOOSE x \in S : TRUE IN B[r] + SumOver(B, S \ {r})

\* number of rows (copies counted) of B that are in the set S
Count(B, S) == SumOver(B, S \cap DOMAIN B)

Size(B) == SumOver(B, DOMAIN B)

\* ------------------------------------------------------- schema and state
VARIABLES
    cfg,       \* the table chain's schema and the backend flag read by generate_sql
    target,    \* target dataset: table_chain index -> bag of rows
    staging,   \* staging dataset: table_chain index -> bag of rows
    temp,      \* the "temporary" (real) tables: the names that exist, and their row keys
    plan,      \* the statements returned by generate_sql
    status,    \* "loaded", "planned", "running", "done", "aborted", "plan_error", "exec_error"
    pc,        \* number of statements of the plan executed in the current run
    run,       \* number of the current execution of the plan
    before,    \* target dataset when the current run started
    first,     \* target dataset when the first run completed (meaningful once run > 1)
    aborted_at, \* number of statements executed when the run was aborted (0: never aborted)
    call,      \* arguments of a call of one of the two helper class methods
    result     \* what that call returned

vars == <<cfg, target, staging, temp, plan, status, pc, run, before, first,
          aborted_at, call, result>>

\* the variables of the calls of the helper methods on their own
helper_vars == <<call, result>>

\* position of the root table in table_chain (table_chain[0])
Root == 1

\* is_nested_table(table): every table of the chain but the first
is_nested_table(i) == i > Root

\* a key clause that is satisfied by equality on one column of a key
_generate_key_table_clauses_any_column(primary_keys, merge_keys, root_row, staging_row) ==
    IF Len(primary_keys) > 0 \/ Len(merge_keys) > 0
    THEN \/ \E j \in 1..Len(primary_keys) :
                root_row[primary_keys[j]] = staging_row[primary_keys[j]]
         \/ \E j \in 1..Len(merge_keys) :
                root_row[merge_keys[j]] = staging_row[merge_keys[j]]
    ELSE TRUE

\* ----------------------------------------------- _generate_key_table_clauses
\* One and_() of equalities per key column of each kind (the inner list
\* comprehension ranges over every column of that kind), all joined by or_();
\* sa.true() when neither kind of key is declared.
_generate_key_table_clauses(primary_keys, merge_keys, root_row, staging_row) ==
    LET pk_clauses == [i \in 1..Len(primary_keys) |->
                          \A j \in 1..Len(primary_keys) :
                              root_row[primary_keys[j]] = staging_row[primary_keys[j]]]
        mk_clauses == [i \in 1..Len(merge_keys) |->
                          \A j \in 1..Len(merge_keys) :
                              root_row[merge_keys[j]] = staging_row[merge_keys[j]]]
        clauses == pk_clauses \o mk_clauses
    IN  IF Len(primary_keys) > 0 \/ Len(merge_keys) > 0
        THEN \E i \in 1..Len(clauses) : clauses[i]
        ELSE TRUE

\* a hard-delete condition that treats every column as a nullable marker
_get_hard_delete_col_and_cond_nullable_marker(data_type, invert, v) ==
    IF invert THEN v = NULL ELSE v # NULL

\* ---------------------------------------------- _get_hard_delete_col_and_cond
\* The condition on the value v of the hard_delete column of data type
\* data_type ("bool" or another type); IS / IS NOT comparisons never yield NULL.
_get_hard_delete_col_and_cond(data_type, invert, v) ==
    LET cond == IF invert THEN v = NULL ELSE v # NULL
    IN  IF data_type = "bool"
        THEN IF invert THEN cond \/ v = "false" ELSE v = "true"
        ELSE cond

\* What _get_hard_delete_col_and_cond returns for a table whose hard_delete
\* column has the data type data_type ("none": the table has no such column):
\* the column name and the truth value of the condition on the value v.
hard_delete_return(data_type, invert, v) ==
    IF data_type = "none"
    THEN [col_name |-> NULL, cond |-> NULL]
    ELSE [col_name |-> "hd",
          cond |-> IF _get_hard_delete_col_and_cond(data_type, invert, v)
                   THEN "true" ELSE "false"]

\* hard_delete_col_name: None when the root table has no hard_delete column
hard_delete_col_name(c) == IF c.hard_delete = "none" THEN NULL ELSE "hd"

\* not_delete_cond (invert=True) evaluated on a row of the table it was built on
not_delete_cond(c, row) == _get_hard_delete_col_and_cond(c.hard_delete, TRUE, row.hd)

\* ------------------------------------------------------------ generate_sql
Stmt(op, table, cond) == [op |-> op, table |-> table, cond |-> cond]

\* a strategy selection that looks at the length of the chain only
delete_statements_by_chain_len(c) ==
    IF c.chain_len = 1
    THEN << Stmt("delete_exists", Root, "key_clause") >>
    ELSE << Stmt("create_table", Root, "delete"),
            Stmt("fill_delete", Root, "key_clause") >>
         \o [i \in 1..(c.chain_len - 1) |-> Stmt("delete_nested", i + 1, "in_delete")]
         \o << Stmt("delete_root", Root, "in_delete") >>

\* lines 46-93: the delete statements
delete_statements(c) ==
    IF c.chain_len = 1 /\ ~c.requires_temp
    THEN << Stmt("delete_exists", Root, "key_clause") >>
    ELSE << Stmt("create_table", Root, "delete"),
            Stmt("fill_delete", Root, "key_clause") >>
         \o [i \in 1..(c.chain_len - 1) |-> Stmt("delete_nested", i + 1, "in_delete")]
         \o << Stmt("delete_root", Root, "in_delete") >>

\* line 105: whether the insert "temporary" table is built
uses_insert_temp(c) ==
    c.chain_len > 1 /\ (Len(c.primary_keys) > 0 \/ hard_delete_col_name(c) # NULL)

\* lines 105-130
insert_temp_statements(c) ==
    IF uses_insert_temp(c)
    THEN << Stmt("create_table", Root, "insert"),
            Stmt("fill_insert", Root, "not_delete") >>
    ELSE << >>

\* lines 139-148: the WHERE clause of the insert of table i of the chain
insert_cond(c, i) ==
    IF (Len(c.primary_keys) > 0 /\ c.chain_len > 1)
       \/ (Len(c.primary_keys) = 0 /\ is_nested_table(i) /\ hard_delete_col_name(c) # NULL)
    THEN "in_insert"
    ELSE IF hard_delete_col_name(c) # NULL THEN "not_delete" ELSE "true"

\* an insert loop that walks the chain from the last table to the root
insert_statements_reversed(c) ==
    [i \in 1..c.chain_len |->
        Stmt("insert", c.chain_len + 1 - i, insert_cond(c, c.chain_len + 1 - i))]

\* lines 133-157
insert_statements(c) == [i \in 1..c.chain_len |-> Stmt("insert", i, insert_cond(c, i))]

\* lines 121-122 and 151-152: raise NotImplementedError("not yet")
raises_not_implemented(c) ==
    \/ uses_insert_temp(c) /\ Len(c.primary_keys) > 0
    \/ Len(c.primary_keys) > 0 /\ c.chain_len = 1

\* str(stmt.compile(...)) (line 162): the text of a statement as a sequence of
\* tokens; whether the compiler ends it with ";" depends on the statement and
\* the dialect, so both are possible (semi)
compile(st, semi) == << st.op, st.cond >> \o (IF semi THEN << ";" >> ELSE << >>)

\* a rendering that leaves the compiled text as it is
terminate_never(x) == x

\* line 160: x + ";" if not x.endswith(";") else x
terminate(x) == IF x[Len(x)] = ";" THEN x ELSE Append(x, ";")

\* the intermediate tables a statement reads or writes (a CREATE TABLE names
\* a table that need not exist)
tables_used(st) ==
    CASE st.op \in {"fill_delete", "delete_nested", "delete_root"} -> {"delete"}
      [] st.op = "fill_insert" -> {"insert"}
      [] st.op = "insert" /\ st.cond = "in_insert" -> {"insert"}
      [] OTHER -> {}

\* the exception generate_sql raises, NULL when it returns
planning_error(c) == IF raises_not_implemented(c) THEN "NotImplementedError" ELSE NULL

\* a generate_sql that hands out the statements appended before the raise
generate_sql_partial(c) ==
    IF raises_not_implemented(c)
    THEN delete_statements(c)
    ELSE delete_statements(c) \o insert_temp_statements(c) \o insert_statements(c)

\* The result of generate_sql: the statement list; none when it raised.
generate_sql(c) ==
    IF raises_not_implemented(c)
    THEN << >>
    ELSE delete_statements(c) \o insert_temp_statements(c) \o insert_statements(c)


\* ---------------------------------------------- execution of one statement
\* a delete whose EXISTS subquery is not correlated to the root row
exec_delete_exists_uncorrelated(c, tgt, stg) ==
    [tgt EXCEPT ![Root] = IF DOMAIN stg[Root] = {} THEN @ ELSE EmptyTable]

\* a plan that leaves the nested tables alone in the delete phase
exec_delete_nested_skipped(tgt, delete_temp_table, i) == tgt

\* sa.exists(sa.select([1]).where(key_clause).select_from(staging_root_table_obj)):
\* the root table is the table of the enclosing statement, so key_clause is
\* correlated to the enclosing root row.
exists_staging_match(c, stg, root_row) ==
    \E s \in DOMAIN stg[Root] :
        _generate_key_table_clauses(c.primary_keys, c.merge_keys, root_row, s)

\* lines 47-52: DELETE FROM root WHERE EXISTS (SELECT 1 FROM staging.root WHERE key_clause)
exec_delete_exists(c, tgt, stg) ==
    [tgt EXCEPT ![Root] = Filter(tgt[Root], {r \in DOMAIN tgt[Root] : ~exists_staging_match(c, stg, r)})]

\* lines 66-76: INSERT INTO delete_root SELECT root.row_key FROM root WHERE EXISTS (...)
exec_fill_delete(c, tgt, stg) ==
    LET matched == Filter(tgt[Root], {r \in DOMAIN tgt[Root] : exists_staging_match(c, stg, r)})
        keys == {r.rk : r \in DOMAIN matched}
    IN  [k \in keys |-> Count(matched, {r \in DOMAIN matched : r.rk = k})]

\* sa.select([row_key_col]).select_from(delete_temp_table) with row_key_col a
\* column of the root table, inside a DELETE on a nested table (lines 83-85):
\* SELECT root.row_key FROM delete_root, root -- the cross product, i.e. every
\* row key of the root table when delete_root holds a row, and nothing otherwise.
delete_key_subquery(tgt, delete_temp_table) ==
    IF DOMAIN delete_temp_table = {} THEN {} ELSE {r.rk : r \in DOMAIN tgt[Root]}

\* lines 83-87: DELETE FROM nested WHERE nested.root_key IN (delete_key_subquery)
exec_delete_nested(tgt, delete_temp_table, i) ==
    LET keys == delete_key_subquery(tgt, delete_temp_table)
    IN  [tgt EXCEPT ![i] = Filter(tgt[i], {r \in DOMAIN tgt[i] : r.root_key \notin keys})]

\* lines 90-92: the same subquery inside a DELETE on the root table itself: the
\* root table is correlated, the subquery is SELECT root.row_key FROM delete_root
\* and yields the enclosing row's own key once per row of delete_root.
root_in_delete_subquery(root_row, delete_temp_table) ==
    DOMAIN delete_temp_table # {}

exec_delete_root(tgt, delete_temp_table) ==
    [tgt EXCEPT ![Root] =
        Filter(tgt[Root],
               {r \in DOMAIN tgt[Root] : ~root_in_delete_subquery(r, delete_temp_table)})]

\* number of rows of the target root table on which not_delete_cond holds:
\* not_delete_cond is built on root_table_obj (lines 97-101), so a SELECT on a
\* staging table that uses it has FROM staging, root.
not_deleted_root_rows(c, tgt) ==
    Count(tgt[Root], {r \in DOMAIN tgt[Root] : not_delete_cond(c, r)})

\* lines 125-130: INSERT INTO insert_root SELECT staging.root.row_key
\*                FROM staging.root, root WHERE not_delete_cond(root)
exec_fill_insert(c, tgt, stg) ==
    LET n == not_deleted_root_rows(c, tgt)
        keys == IF n = 0 THEN {} ELSE {s.rk : s \in DOMAIN stg[Root]}
    IN  [k \in keys |-> n * Count(stg[Root], {s \in DOMAIN stg[Root] : s.rk = k})]

\* The rows selected by select_sql (line 150) for table i of the chain.
select_sql(c, tgt, stg, insert_temp_table, i, cond) ==
    CASE cond = "true" -> stg[i]
      [] cond = "not_delete" -> Scale(stg[i], not_deleted_root_rows(c, tgt))
      \* lines 146-148: uniq_column is a column of table_obj, the target table:
      \* SELECT staging.t.* FROM staging.t, t WHERE t.uniq IN (SELECT * FROM insert_root)
      [] cond = "in_insert" ->
            Scale(stg[i], Count(tgt[i], {r \in DOMAIN tgt[i] :
                (IF is_nested_table(i) THEN r.root_key ELSE r.rk) \in DOMAIN insert_temp_table}))

\* lines 154-157: INSERT INTO t SELECT ...
exec_insert(c, tgt, stg, insert_temp_table, i, cond) ==
    [tgt EXCEPT ![i] = Plus(tgt[i], select_sql(c, tgt, stg, insert_temp_table, i, cond))]

\* The effect of one statement on the target dataset and the temporary tables;
\* ok is FALSE when the statement fails (CREATE TABLE of an existing table).
apply_stmt(c, db, stg, st) ==
    CASE st.op = "create_table" ->
            IF st.cond \in db.temp.names
            THEN [db EXCEPT !.ok = FALSE]
            ELSE [db EXCEPT !.temp = [@ EXCEPT !.names = @ \cup {st.cond},
                                               ![st.cond] = EmptyTable]]
      [] st.op = "delete_exists" ->
            [db EXCEPT !.target = exec_delete_exists(c, db.target, stg)]
      [] st.op = "fill_delete" ->
            [db EXCEPT !.temp.delete = Plus(@, exec_fill_delete(c, db.target, stg))]
      [] st.op = "delete_nested" ->
            [db EXCEPT !.target = exec_delete_nested(db.target, db.temp.delete, st.table)]
      [] st.op = "delete_root" ->
            [db EXCEPT !.target = exec_delete_root(db.target, db.temp.delete)]
      [] st.op = "fill_insert" ->
            [db EXCEPT !.temp.insert = Plus(@, exec_fill_insert(c, db.target, stg))]
      [] st.op = "insert" ->
            [db EXCEPT !.target =
                exec_insert(c, db.target, stg, db.temp.insert, st.table, st.cond)]

\* The statements p[k..] executed in order, stopping at the first failure.
RECURSIVE execute_from(_, _, _, _, _)
execute_from(c, db, stg, p, k) ==
    IF k > Len(p) \/ ~db.ok THEN db
    ELSE execute_from(c, apply_stmt(c, db, stg, p[k]), stg, p, k + 1)

\* ----------------------------------------------------------------- actions
NextStmt == plan[pc + 1]

CanStep == status \in {"planned", "running"} /\ pc < Len(plan)

Advance ==
    /\ pc' = pc + 1
    /\ status' = IF pc + 1 = Len(plan) THEN "done" ELSE "running"
    /\ UNCHANGED <<cfg, staging, plan, run, before, first, aborted_at, helper_vars>>

\* generate_sql is called once the staging dataset is loaded
GenerateSql ==
    /\ status = "loaded"
    /\ plan' = generate_sql(cfg)
    /\ status' = IF raises_not_implemented(cfg) THEN "plan_error" ELSE "planned"
    /\ UNCHANGED <<cfg, target, staging, temp, pc, run, before, first,
                    aborted_at, helper_vars>>

\* CREATE TABLE delete_<root> / insert_<root> (lines 64, 119): a real table,
\* so the statement fails when a table of that name exists
CreateTable ==
    /\ CanStep
    /\ NextStmt.op = "create_table"
    /\ IF NextStmt.cond \in temp.names
       THEN /\ status' = "exec_error"
            /\ UNCHANGED <<cfg, target, staging, temp, plan, pc, run, before, first,
                            aborted_at, helper_vars>>
       ELSE /\ temp' = [temp EXCEPT !.names = @ \cup {NextStmt.cond},
                                    ![NextStmt.cond] = EmptyTable]
            /\ UNCHANGED target
            /\ Advance

DeleteExists ==
    /\ CanStep
    /\ NextStmt.op = "delete_exists"
    /\ target' = exec_delete_exists(cfg, target, staging)
    /\ UNCHANGED temp
    /\ Advance

FillDelete ==
    /\ CanStep
    /\ NextStmt.op = "fill_delete"
    /\ temp' = [temp EXCEPT !.delete = Plus(@, exec_fill_delete(cfg, target, staging))]
    /\ UNCHANGED target
    /\ Advance

DeleteNested ==
    /\ CanStep
    /\ NextStmt.op = "delete_nested"
    /\ target' = exec_delete_nested(target, temp.delete, NextStmt.table)
    /\ UNCHANGED temp
    /\ Advance

DeleteRoot ==
    /\ CanStep
    /\ NextStmt.op = "delete_root"
    /\ target' = exec_delete_root(target, temp.delete)
    /\ UNCHANGED temp
    /\ Advance

FillInsert ==
    /\ CanStep
    /\ NextStmt.op = "fill_insert"
    /\ temp' = [temp EXCEPT !.insert = Plus(@, exec_fill_insert(cfg, target, staging))]
    /\ UNCHANGED target
    /\ Advance

Insert ==
    /\ CanStep
    /\ NextStmt.op = "insert"
    /\ target' = exec_insert(cfg, target, staging, temp.insert, NextStmt.table, NextStmt.cond)
    /\ UNCHANGED temp
    /\ Advance

\* the same plan is executed again on the same staging batch
Rerun ==
    /\ status = "done"
    /\ run < MaxRuns
    /\ aborted_at = 0
    /\ run' = run + 1
    /\ pc' = 0
    /\ status' = "planned"
    /\ before' = target
    /\ first' = IF run = 1 THEN target ELSE first
    /\ UNCHANGED <<cfg, target, staging, temp, plan, aborted_at, helper_vars>>

\* execution of the plan is aborted after a prefix of its statements: the
\* statements executed so far keep their effect (the plan holds no transaction)
Abort ==
    /\ status = "running"
    /\ run = 1
    /\ aborted_at = 0
    /\ aborted_at' = pc
    /\ status' = "aborted"
    /\ UNCHANGED <<cfg, target, staging, temp, plan, pc, run, before, first, helper_vars>>

\* after an abort the entire plan is executed again from its first statement
Restart ==
    /\ status = "aborted"
    /\ pc' = 0
    /\ status' = "planned"
    /\ UNCHANGED <<cfg, target, staging, temp, plan, run, before, first,
                    aborted_at, helper_vars>>


\* ------------------------------------------------------------------- Init
\* Key declarations of the root table: none, a merge key, a primary key.
KeyConfigs ==
    { [primary_keys |-> << >>, merge_keys |-> << >>],
      [primary_keys |-> << >>, merge_keys |-> <<"a">>],
      [primary_keys |-> <<"a">>, merge_keys |-> << >>] }

\* The table chains: a root table alone (with a doc_id column or a hard_delete
\* column or neither, on a backend that does or does not require a temp table
\* for delete), and chains with one or two nested tables.
Configs ==
    { [chain_len |-> n, primary_keys |-> k.primary_keys, merge_keys |-> k.merge_keys,
       hard_delete |-> h, doc_col |-> d, dedup_sort |-> o, requires_temp |-> t] :
        n \in 1..3, k \in KeyConfigs, h \in {"none", "bool", "timestamp"},
        d \in BOOLEAN, o \in {"none", "asc", "desc"}, t \in BOOLEAN }

ConfigOk(c) ==
    /\ c.doc_col => (c.chain_len = 1 /\ c.hard_delete = "none")
    /\ c.requires_temp => c.chain_len = 1
    /\ c.chain_len = 3 => c.hard_delete # "timestamp"
    \* a dedup_sort column (doc) is declared only together with a primary key
    /\ c.dedup_sort # "none" => (Len(c.primary_keys) > 0 /\ c.hard_delete = "none")
    /\ c.dedup_sort = "asc" => c.chain_len = 1

\* values of the hard_delete column stored in rows (a boolean NULL is stored
\* in root tables without nested tables only: the conditions treat it as false)
HdValues(c) ==
    CASE c.hard_delete = "none" -> {NULL}
      [] c.hard_delete = "bool" ->
            IF c.chain_len = 1 THEN {NULL, "false", "true"} ELSE {"false", "true"}
      [] OTHER -> {NULL, "ts"}

DocValues(c) == IF c.doc_col THEN 1..MaxDoc ELSE {0}

\* root tables whose rows have the row keys `keys`
RootTablesOn(c, keys) ==
    LET Attr == [a : 1..MaxKeyVal, doc : DocValues(c), hd : HdValues(c)]
    IN  { BagOf({ [rk |-> k, a |-> f[k].a, doc |-> f[k].doc, hd |-> f[k].hd] : k \in keys })
            : f \in [keys -> Attr] }

RECURSIVE SumFn(_, _)
SumFn(f, S) ==
    IF S = {} THEN 0
    ELSE LET k == CHOOSE x \in S : TRUE IN f[k] + SumFn(f, S \ {k})

\* nested tables all of whose rows refer to a root row key in `keys`
NestedTablesOn(keys) ==
    { BagOf(UNION { { [root_key |-> k, id |-> j] : j \in 1..cnt[k] } : k \in keys })
        : cnt \in { g \in [keys -> 0..MaxNested] : SumFn(g, keys) <= MaxNested } }

\* datasets of the chain: the root rows have the row keys base+1 .. base+n
Datasets(c, base, max) ==
    UNION { { [i \in 1..c.chain_len |-> IF i = Root THEN root ELSE nested[i]]
                : root \in RootTablesOn(c, (base + 1)..(base + n)),
                  nested \in [2..c.chain_len -> NestedTablesOn((base + 1)..(base + n))] }
            : n \in 0..max }

\* staging root rows of a batch
MaxStaging(c) == IF c.chain_len <= 2 THEN MaxRoot ELSE MaxDeepStaging

Init ==
    /\ cfg \in {c \in Configs : ConfigOk(c)}
    /\ target \in Datasets(cfg, 0, MaxRoot)
    /\ staging \in Datasets(cfg, MaxRoot, MaxStaging(cfg))
    /\ temp = [names |-> {}, delete |-> EmptyTable, insert |-> EmptyTable]
    /\ plan = << >>
    /\ status = "loaded"
    /\ pc = 0
    /\ run = 1
    /\ before = target
    /\ first = target
    /\ aborted_at = 0
    /\ call = [fn |-> NULL]
    /\ result = [returned |-> FALSE]

\* ------------------------------------------- calls of the helper methods
\* key column lists over two columns, in either order
KeyLists == { << >>, <<"a">>, <<"b">>, <<"a", "b">>, <<"b", "a">> }

KeyRows == [a : 1..MaxKeyVal, b : 1..MaxKeyVal]

KeyCalls ==
    [fn : {"_generate_key_table_clauses"}, primary_keys : KeyLists, merge_keys : KeyLists,
     root_row : KeyRows, staging_row : KeyRows]

\* values a hard_delete column of a data type can hold
HardDeleteValues(data_type) ==
    CASE data_type = "none" -> {NULL}
      [] data_type = "bool" -> {NULL, "false", "true"}
      [] OTHER -> {NULL, "ts"}

HardDeleteCalls ==
    UNION { { [fn |-> "_get_hard_delete_col_and_cond", data_type |-> t, v |-> x]
                : x \in HardDeleteValues(t) }
            : t \in {"none", "bool", "timestamp"} }

HelperInit ==
    /\ call \in KeyCalls \cup HardDeleteCalls
    /\ result = [returned |-> FALSE]
    /\ cfg = [chain_len |-> 1, primary_keys |-> << >>, merge_keys |-> << >>,
              hard_delete |-> "none", doc_col |-> FALSE, dedup_sort |-> "none",
              requires_temp |-> FALSE]
    /\ target = << EmptyTable >>
    /\ staging = << EmptyTable >>
    /\ temp = [names |-> {}, delete |-> EmptyTable, insert |-> EmptyTable]
    /\ plan = << >>
    /\ status = "helper"
    /\ pc = 0
    /\ run = 1
    /\ before = << EmptyTable >>
    /\ first = << EmptyTable >>
    /\ aborted_at = 0

HelperUnchanged ==
    UNCHANGED <<cfg, target, staging, temp, plan, status, pc, run, before, first,
                aborted_at, call>>

\* key_clause = cls._generate_key_table_clauses(...), evaluated on a pair of rows
CallGenerateKeyTableClauses ==
    /\ call.fn = "_generate_key_table_clauses"
    /\ ~result.returned
    /\ result' = [returned |-> TRUE,
                  value |-> _generate_key_table_clauses(call.primary_keys, call.merge_keys,
                                                       call.root_row, call.staging_row)]
    /\ HelperUnchanged

\* cls._get_hard_delete_col_and_cond(table, table_obj, invert) with invert
\* False and True, the conditions evaluated on a value of the column
CallGetHardDeleteColAndCond ==
    /\ call.fn = "_get_hard_delete_col_and_cond"
    /\ ~result.returned
    /\ result' = [returned |-> TRUE,
                  col_name |-> hard_delete_return(call.data_type, FALSE, call.v).col_name,
                  cond |-> hard_delete_return(call.data_type, FALSE, call.v).cond,
                  cond_inverted |-> hard_delete_return(call.data_type, TRUE, call.v).cond]
    /\ HelperUnchanged

HelperNext ==
    \/ CallGenerateKeyTableClauses
    \/ CallGetHardDeleteColAndCond

HelperSpec == HelperInit /\ [][HelperNext]_vars

Next ==
    \/ GenerateSql
    \/ CreateTable
    \/ DeleteExists
    \/ FillDelete
    \/ DeleteNested
    \/ DeleteRoot
    \/ FillInsert
    \/ Insert
    \/ Rerun
    \/ Abort
    \/ Restart

Spec == Init /\ [][Next]_vars


\* ================================================================= claims
KeysDeclared == Len(cfg.primary_keys) > 0 \/ Len(cfg.merge_keys) > 0

\* the match clause of the chain on a (target root row, staging root row) pair
Matches(t, s) == _generate_key_table_clauses(cfg.primary_keys, cfg.merge_keys, t, s)

\* the hard-delete condition (invert=False) on a staging root row
HardDeleted(s) ==
    /\ cfg.hard_delete # "none"
    /\ _get_hard_delete_col_and_cond(cfg.hard_delete, FALSE, s.hd)

\* every nested row's root key is the row key of a row of the root table
NoOrphans(db) ==
    \A i \in 2..cfg.chain_len : \A r \in DOMAIN db[i] :
        \E x \in DOMAIN db[Root] : x.rk = r.root_key

\* a merge attempt has ended: the plan ran to its end, or it could not be built
MergeEnded == status \in {"done", "plan_error"}

\* C1: Orphan invariant.  For a chain with nested tables whose target and
\* staging datasets hold no nested row without its root row, once every
\* statement of the plan has been executed every nested target row has a root
\* key that is the row key of a row of the target root table.
C1_OrphanInvariant ==
    (status = "done" /\ cfg.chain_len > 1 /\ NoOrphans(before) /\ NoOrphans(staging))
        => NoOrphans(target)

\* a merge of a chain that removed a nested row and left nested rows in the target
C1_Witness ==
    /\ status = "done"
    /\ cfg.chain_len > 1
    /\ NoOrphans(before) /\ NoOrphans(staging)
    /\ \E r \in DOMAIN before[2] : r \notin DOMAIN target[2]
    /\ DOMAIN target[2] # {}
    /\ DOMAIN target[Root] # {}

\* C2: Subtree replacement.  When a (not hard-deleted) staging root row matches
\* a target root row, after the merge the nested rows of that root -- those
\* keyed by the old target row or by the staging row -- are exactly the nested
\* rows the staging batch holds for it, in every nested table.
C2_SubtreeReplacement ==
    (status = "done" /\ run = 1 /\ cfg.chain_len > 1 /\ KeysDeclared)
        => \A s \in DOMAIN staging[Root] :
              LET old == {t \in DOMAIN before[Root] : Matches(t, s)}
                  keys == {s.rk} \cup {t.rk : t \in old}
              IN  (old # {} /\ ~HardDeleted(s))
                    => \A i \in 2..cfg.chain_len :
                          Filter(target[i], {r \in DOMAIN target[i] : r.root_key \in keys})
                            = Filter(staging[i], {r \in DOMAIN staging[i] : r.root_key = s.rk})

\* C3: Identity-match completeness.  With a primary key or a merge key
\* declared, for every target root row matched by a (not hard-deleted) staging
\* root row the merge is carried out, the old row is gone and the staging row
\* is in the target exactly once.
C3_IdentityMatch ==
    (KeysDeclared /\ MergeEnded /\ run = 1)
        => \A s \in DOMAIN staging[Root] : \A t \in DOMAIN before[Root] :
              (Matches(t, s) /\ ~HardDeleted(s))
                 => /\ status = "done"
                    /\ Copies(target[Root], t) = 0
                    /\ Copies(target[Root], s) = 1

\* C4: Idempotence.  Executing the plan a second time on the same staging
\* batch runs to its end and leaves every table of the chain with the rows it
\* had after the first execution.
C4_Idempotence ==
    (run = 2 /\ status \in {"done", "exec_error"} /\ DOMAIN first[Root] # {})
        => /\ status = "done"
           /\ \A i \in 1..cfg.chain_len : DOMAIN target[i] = DOMAIN first[i]

\* C5: Hard-delete exclusion.  After the merge the target holds no root row
\* with the identity of a hard-deleted staging root row and no nested row that
\* descends from it.
C5_HardDeleteExclusion ==
    (status = "done" /\ run = 1 /\ KeysDeclared)
        => \A s \in DOMAIN staging[Root] :
              HardDeleted(s)
                => /\ \A x \in DOMAIN target[Root] : ~Matches(x, s) /\ x.rk # s.rk
                   /\ \A i \in 2..cfg.chain_len : \A r \in DOMAIN target[i] :
                         r.root_key # s.rk

\* the staging root rows that share the primary-key value of s
PkGroup(s) ==
    {x \in DOMAIN staging[Root] :
        \A j \in 1..Len(cfg.primary_keys) : x[cfg.primary_keys[j]] = s[cfg.primary_keys[j]]}

\* s wins its group: best value of the dedup-sort column (doc), and among the
\* best the first in input order (staging row keys are given in input order)
DedupWinner(s) ==
    \A x \in PkGroup(s) :
        \/ (IF cfg.dedup_sort = "asc" THEN s.doc < x.doc ELSE s.doc > x.doc)
        \/ (s.doc = x.doc /\ s.rk <= x.rk)

\* C6: Dedup-sort determinism.  With a primary key on the root table, of
\* several staging rows that share a primary-key value exactly the winner is
\* inserted into the target.
C6_DedupSort ==
    (Len(cfg.primary_keys) > 0 /\ cfg.dedup_sort # "none" /\ cfg.doc_col
        /\ MergeEnded /\ run = 1)
        => \A s \in DOMAIN staging[Root] :
              Cardinality(PkGroup(s)) > 1
                 => Copies(target[Root], s) = (IF DedupWinner(s) THEN 1 ELSE 0)

\* C7: No-key rejection.  For a chain whose root table declares neither a
\* primary key nor a merge key planning fails and no plan is produced: no plan
\* is ever carried out, and no row of the target root table is removed.
C7_NoKeyRejection ==
    (~KeysDeclared /\ DOMAIN before[Root] # {} /\ DOMAIN staging[Root] # {})
        => /\ status # "done"
           /\ \A t \in DOMAIN before[Root] : t \in DOMAIN target[Root]

\* the rows of B whose column col has a value that no staging root row has
Unmatched(B, col) ==
    Filter(B, {t \in DOMAIN B : \A s \in DOMAIN staging[Root] : s[col] # t[col]})

MergeKeyOnly ==
    /\ cfg.chain_len = 1
    /\ cfg.merge_keys = <<"a">> /\ cfg.primary_keys = << >>
    /\ cfg.hard_delete = "none"

\* C8: Merge-key-only matching is per row.  For a single-table chain with a
\* merge key, no primary key and no hard-delete column the target after the
\* merge is the target rows whose merge-key value no staging row has, plus all
\* staging rows.
C8_MergeKeyPerRow ==
    (MergeKeyOnly /\ status = "done" /\ run = 1)
        => target[Root] = Plus(Unmatched(before[Root], "a"), staging[Root])

FullyMerged ==
    execute_from(cfg,
                 [target |-> before,
                  temp |-> [names |-> {}, delete |-> EmptyTable, insert |-> EmptyTable],
                  ok |-> TRUE],
                 staging, plan, 1).target

\* C10: Atomicity.  While the plan is executed a reader of the target dataset
\* sees the state before the merge or the fully merged state.
C10_Atomicity ==
    (run = 1 /\ KeysDeclared /\ status \in {"planned", "running", "done"})
        => (target = before \/ target = FullyMerged)

\* C11: Safe re-run after abort.  When the execution of the plan was aborted
\* after a prefix of its statements and the entire plan is then executed again
\* from its first statement, that execution runs to its end without error and
\* leaves the target dataset that one uninterrupted execution leaves.
C11_SafeRerunAfterAbort ==
    (aborted_at > 0 /\ status \in {"done", "exec_error"} /\ KeysDeclared
        /\ DOMAIN before[Root] # {} /\ DOMAIN staging[Root] # {})
        => /\ status = "done"
           /\ target = FullyMerged

\* the execution of the plan has ended: completed, failed or aborted
PlanEnded == status \in {"done", "exec_error", "aborted"}

\* C12: Intermediate key-set cleanup.  Once the plan has completed or failed
\* none of the intermediate key-set tables it created (delete_<root>,
\* insert_<root>) exists any more.
C12_KeySetCleanup ==
    (PlanEnded /\ KeysDeclared /\ DOMAIN staging[Root] # {}) => temp.names = {}

\* C13: Primary-key matching on a chain with more than one table makes
\* planning fail (whatever the exception is called) when no dedup-sort spec is
\* supplied, and planning succeeds and returns a plan whenever one is supplied.
C13_PrimaryKeyChainPlanning ==
    (Len(cfg.primary_keys) > 0 /\ cfg.chain_len > 1 /\ status # "loaded")
        => IF cfg.dedup_sort = "none"
           THEN status = "plan_error" /\ planning_error(cfg) # NULL
           ELSE status # "plan_error" /\ planning_error(cfg) = NULL /\ plan # << >>

\* C14: Planning failures precede mutation.  When generate_sql fails it
\* returns no statement, none of the plan's statements is executed, and the
\* target dataset and the set of existing intermediate tables are unchanged.
C14_PlanningFailureNoMutation ==
    status = "plan_error"
        => /\ plan = << >>
           /\ pc = 0
           /\ target = before
           /\ temp.names = {}

\* planning failed for a chain with nested tables (a CREATE TABLE had been
\* appended to the list before the raise) with rows in target and staging
C14_Witness ==
    /\ status = "plan_error"
    /\ planning_error(cfg) # NULL
    /\ cfg.chain_len > 1
    /\ DOMAIN target[Root] # {} /\ DOMAIN staging[Root] # {}
    /\ DOMAIN target[2] # {}

\* the positions of the plan that hold a statement of one of the kinds ops
Positions(ops) == {k \in 1..Len(plan) : plan[k].op \in ops}

DeleteOps == {"delete_exists", "delete_nested", "delete_root"}

DeleteKeySetAt == {k \in 1..Len(plan) :
    plan[k].op = "fill_delete" \/ (plan[k].op = "create_table" /\ plan[k].cond = "delete")}

InsertKeySetAt == {k \in 1..Len(plan) :
    plan[k].op = "fill_insert" \/ (plan[k].op = "create_table" /\ plan[k].cond = "insert")}

\* C15: Statement order.  In the sequence generate_sql returned the delete key-set
\* statements precede every delete, there is exactly one delete per table of
\* the chain, every delete precedes the insert key-set statements, these
\* precede every insert, there is exactly one insert per table of the chain,
\* and the inserts are in chain order.
C15_StatementOrder ==
    (status = "planned" /\ run = 1 /\ aborted_at = 0)
        => /\ \A k \in DeleteKeySetAt : \A d \in Positions(DeleteOps) : k < d
           /\ \A i \in 1..cfg.chain_len :
                 Cardinality({d \in Positions(DeleteOps) : plan[d].table = i}) = 1
           /\ \A d \in Positions(DeleteOps) : \A k \in InsertKeySetAt : d < k
           /\ \A d \in Positions(DeleteOps) : \A j \in Positions({"insert"}) : d < j
           /\ \A k \in InsertKeySetAt : \A j \in Positions({"insert"}) : k < j
           /\ \A i \in 1..cfg.chain_len :
                 Cardinality({j \in Positions({"insert"}) : plan[j].table = i}) = 1
           /\ \A j1, j2 \in Positions({"insert"}) :
                 j1 < j2 => plan[j1].table < plan[j2].table

\* the plan of a chain with two nested tables and both key sets was returned
C15_Witness ==
    /\ status = "planned"
    /\ cfg.chain_len = 3
    /\ DeleteKeySetAt # {} /\ InsertKeySetAt # {}
    /\ Cardinality(Positions({"insert"})) = 3
    /\ DOMAIN staging[Root] # {}

\* C16: Every statement of the returned sequence ends with ";", and every
\* intermediate key-set table a statement reads or writes exists when the
\* statement is executed at its position.
C16_TerminatedAndExecutable ==
    /\ \A k \in 1..Len(plan) : \A semi \in BOOLEAN :
          LET x == terminate(compile(plan[k], semi)) IN x[Len(x)] = ";"
    /\ CanStep => tables_used(NextStmt) \subseteq temp.names

\* a nested insert restricted by the insert key set is about to be executed
C16_Witness ==
    /\ CanStep
    /\ NextStmt.op = "insert" /\ NextStmt.cond = "in_insert"
    /\ tables_used(NextStmt) = {"insert"}
    /\ "insert" \in temp.names
    /\ DOMAIN staging[NextStmt.table] # {}

UsesDirect == Positions({"delete_exists"}) # {}

\* C17: Strategy selection.  The delete phase is the direct-correlated delete
\* (one delete on the root table with an existence check, no intermediate
\* table) exactly when the chain has one table and the backend requires no
\* temp table for delete; otherwise it is the materialized-key-set strategy,
\* which deletes from every nested table by root-key membership before it
\* deletes from the root table by row-key membership.
C17_StrategySelection ==
    plan # << >>
        => /\ UsesDirect <=> (cfg.chain_len = 1 /\ ~cfg.requires_temp)
           /\ UsesDirect
                => /\ plan[1] = Stmt("delete_exists", Root, "key_clause")
                   /\ Positions(DeleteOps) = {1}
                   /\ DeleteKeySetAt = {}
           /\ ~UsesDirect
                => /\ plan[1] = Stmt("create_table", Root, "delete")
                   /\ plan[2] = Stmt("fill_delete", Root, "key_clause")
                   /\ \E r \in Positions({"delete_root"}) :
                         /\ plan[r] = Stmt("delete_root", Root, "in_delete")
                         /\ \A i \in 2..cfg.chain_len :
                               \E k \in 1..(r - 1) :
                                   plan[k] = Stmt("delete_nested", i, "in_delete")

\* a single table on a backend that requires a temp table for delete was
\* merged by the materialized-key-set strategy, and a root row was deleted
C17_Witness ==
    /\ status = "done"
    /\ cfg.chain_len = 1 /\ cfg.requires_temp
    /\ ~UsesDirect
    /\ "delete" \in temp.names
    /\ \E t \in DOMAIN before[Root] : t \notin DOMAIN target[Root]

\* every column of the key list has the same value in both rows
AllEqual(keys, r, s) == \A j \in 1..Len(keys) : r[keys[j]] = s[keys[j]]

\* C18: Match clause.  The predicate built by _generate_key_table_clauses is
\* true exactly when a primary key is declared and all its columns are equal,
\* or a merge key is declared and all its columns are equal, or no key is
\* declared at all.
C18_MatchClause ==
    (result.returned /\ call.fn = "_generate_key_table_clauses")
        => (result.value
              <=> \/ Len(call.primary_keys) > 0
                       /\ AllEqual(call.primary_keys, call.root_row, call.staging_row)
                  \/ Len(call.merge_keys) > 0
                       /\ AllEqual(call.merge_keys, call.root_row, call.staging_row)
                  \/ Len(call.primary_keys) = 0 /\ Len(call.merge_keys) = 0)

\* two-column keys and rows that agree on one column of the key only: no match
C18_Witness ==
    /\ result.returned /\ call.fn = "_generate_key_table_clauses"
    /\ Len(call.primary_keys) = 2 /\ Len(call.merge_keys) = 2
    /\ call.root_row.a = call.staging_row.a
    /\ call.root_row.b # call.staging_row.b
    /\ ~result.value

\* C19: Hard-delete condition.  For a boolean column the delete condition
\* holds exactly for true and the not-delete condition exactly for false and
\* null; for another column the delete condition holds exactly for non-null
\* values and the not-delete condition exactly for null; exactly one of the
\* two holds for every value; without a hard-delete column there is no column
\* and no condition.
C19_HardDeleteCondition ==
    (result.returned /\ call.fn = "_get_hard_delete_col_and_cond")
        => CASE call.data_type = "none" ->
                   /\ result.col_name = NULL
                   /\ result.cond = NULL /\ result.cond_inverted = NULL
             [] call.data_type = "bool" ->
                   /\ result.col_name # NULL
                   /\ result.cond = "true" <=> call.v = "true"
                   /\ result.cond_inverted = "true" <=> call.v \in {"false", NULL}
                   /\ (result.cond = "true") # (result.cond_inverted = "true")
             [] OTHER ->
                   /\ result.col_name # NULL
                   /\ result.cond = "true" <=> call.v # NULL
                   /\ result.cond_inverted = "true" <=> call.v = NULL
                   /\ (result.cond = "true") # (result.cond_inverted = "true")

\* a boolean hard-delete column holding false: not a delete
C19_Witness ==
    /\ result.returned /\ call.fn = "_get_hard_delete_col_and_cond"
    /\ call.data_type = "bool" /\ call.v = "false"
    /\ result.cond = "false" /\ result.cond_inverted = "true"

\* the row keys of the staging root rows that are not hard-deleted
InsertEligible == {s.rk : s \in {x \in DOMAIN staging[Root] : ~HardDeleted(x)}}

\* C20: Nested insert eligibility.  In a chain with nested tables and a
\* hard-delete column (no primary key) the insert-eligible key set is exactly
\* the row keys of the staging root rows whose hard-delete condition is false,
\* and a staging row of a nested table is copied into the target exactly when
\* its own root key is in that set.
C20_NestedInsertEligibility ==
    (cfg.chain_len > 1 /\ cfg.hard_delete # "none" /\ Len(cfg.primary_keys) = 0
        /\ KeysDeclared /\ DOMAIN staging[2] # {}
        /\ status = "done" /\ run = 1 /\ aborted_at = 0)
        => /\ DOMAIN temp.insert = InsertEligible
           /\ \A i \in 2..cfg.chain_len : \A r \in DOMAIN staging[i] :
                 Copies(target[i], r) = (IF r.root_key \in InsertEligible THEN 1 ELSE 0)

\* C21: Frame of the merge.  A target root row that matches no staging root
\* row, and every nested row whose root key refers to such a root row, is in
\* the target after the merge as it was before.
C21_Frame ==
    (status = "done" /\ run = 1 /\ aborted_at = 0 /\ KeysDeclared)
        => \A t \in DOMAIN before[Root] :
              (\A s \in DOMAIN staging[Root] : ~Matches(t, s))
                 => /\ Copies(target[Root], t) = Copies(before[Root], t)
                    /\ \A i \in 2..cfg.chain_len : \A r \in DOMAIN before[i] :
                          r.root_key = t.rk
                             => Copies(target[i], r) = Copies(before[i], r)

\* the same chain on a backend with the other answer to
\* requires_temp_table_for_delete(), i.e. merged with the other delete strategy
OtherStrategy == [cfg EXCEPT !.requires_temp = ~@]

\* the target root table after the whole plan of the other strategy, executed
\* on the target dataset the current run started from
TargetUnderOtherStrategy ==
    execute_from(OtherStrategy,
                 [target |-> before,
                  temp |-> [names |-> {}, delete |-> EmptyTable, insert |-> EmptyTable],
                  ok |-> TRUE],
                 staging, generate_sql(OtherStrategy), 1).target

\* C22: Strategy equivalence.  For a single-table chain the direct-correlated
\* delete and the materialized-key-set delete remove the same target root
\* rows, so the target after the whole plan is the same under both.
C22_StrategyEquivalence ==
    (cfg.chain_len = 1 /\ KeysDeclared /\ plan # << >>
        /\ status = "done" /\ run = 1 /\ aborted_at = 0)
        => target = TargetUnderOtherStrategy


====
